---- MODULE Spec2Model ----
(***************************************************************************)
(* Model of statsforecast's model utilities (nbs/src/utils.ipynb):         *)
(* _seasonal_naive, _naive, _calculate_intervals, _calculate_sigma and the *)
(* ConformalIntervals class.                                               *)
(*                                                                         *)
(* Numbers.  An input observation (a float64 of the series y) is an        *)
(* integer.  An element of an emitted float32 array is a record            *)
(* [isnan, val]: NaN, or a number on the float32 grid.  The grid is the    *)
(* even integers: F32 rounds an observation to it, so the cast is not the  *)
(* identity (an odd observation is not representable in 32 bits).         *)
(* Arrays are sequences; Python's 0-based position i is index i + 1.       *)
(***************************************************************************)
EXTENDS Integers, Sequences, FiniteSets, TLC

VARIABLES
    y,              \* the series handed to the forecasters
    h,              \* forecasting horizon
    fitted,         \* fitted flag
    season_length,  \* season length
    season_vals,    \* _seasonal_naive's season template at its return
    seas,           \* what _seasonal_naive returned
    naive,          \* what _naive returned
    done,           \* the functions applied so far
    mean,           \* out['mean'] handed to _calculate_intervals
    level,          \* the confidence levels handed to _calculate_intervals
    sigmah,         \* the spread handed to _calculate_intervals
    pred_int,       \* what _calculate_intervals returned
    residuals,      \* the residuals handed to _calculate_sigma
    n_valid,        \* the count n handed to _calculate_sigma
    sigma,          \* what _calculate_sigma returned
    args,           \* the arguments of the ConformalIntervals construction
    self,           \* the ConformalIntervals object
    error,          \* the exception the construction raised, "" for none
    assigned        \* the attributes a consumer has assigned since

fcstVars == <<y, h, fitted, season_length, season_vals, seas, naive>>
intvVars == <<mean, level, sigmah, pred_int>>
sigmaVars == <<residuals, n_valid, sigma>>
confVars == <<args, self, error, assigned>>
vars == <<fcstVars, intvVars, sigmaVars, confVars, done>>

\* ------------------------------------------------------------------ bounds
MaxN == 3       \* longest series
MaxVal == 3     \* largest observation
MaxH == 4       \* longest horizon
MaxM == 3       \* longest season
MaxLevels == 2  \* most confidence levels in one call
MaxSigma == 1   \* largest spread
MaxWindows == 3 \* largest n_windows
MaxIH == 2      \* longest mean handed to _calculate_intervals

\* ----------------------------------------------------------------- numbers
Min(a, b) == IF a < b THEN a ELSE b
Max(a, b) == IF a > b THEN a ELSE b

NaN == [isnan |-> TRUE, val |-> 0]
Num(v) == [isnan |-> FALSE, val |-> v]

\* A float64 cast to np.float32: rounded to the float32 grid.
F32(v) == Num(2 * (v \div 2))

IsNaN(x) == x.isnan

\* Values np.empty may leave in a position of a float32 array.
Garbage == {NaN, F32(0)}

\* A call's outcome: nothing yet, a returned dict (a record keyed as the dict),
\* or a raised exception.
NoResult == [none |-> TRUE]
Raise(e) == [raise |-> e]
Raised(r) == "raise" \in DOMAIN r

\* ----------------------------------------------------------- numpy slices
\* A slice bound as numpy normalises it against a length n.
NormIndex(i, n) == IF i < 0 THEN Max(n + i, 0) ELSE Min(i, n)

\* a[start:stop], 0-based, stop exclusive.
Slice(a, start, stop) ==
    LET lo == NormIndex(start, Len(a))
        hi == NormIndex(stop, Len(a))
    IN  IF hi <= lo THEN <<>> ELSE SubSeq(a, lo + 1, hi)

\* a[start:]
SliceFrom(a, start) == Slice(a, start, Len(a))

\* a[:stop]
SliceTo(a, stop) == Slice(a, 0, stop)

\* Number of positions a[start:stop] addresses.
SliceLen(a, start, stop) == Len(Slice(a, start, stop))

\* a[start:stop] = src is accepted when src has the slice's size or size 1.
CanAssign(a, start, stop, src) ==
    Len(src) = SliceLen(a, start, stop) \/ Len(src) = 1

\* a[start:stop] = src, each element cast to float32.
SetSlice(a, start, stop, src) ==
    LET lo == NormIndex(start, Len(a))
        hi == NormIndex(stop, Len(a))
    IN  [i \in 1..Len(a) |->
            IF lo < i /\ i <= hi
            THEN F32(IF Len(src) = 1 THEN src[1] ELSE src[i - lo])
            ELSE a[i]]

\* a[start:stop] = np.nan
FillNaN(a, start, stop) ==
    LET lo == NormIndex(start, Len(a))
        hi == NormIndex(stop, Len(a))
    IN  [i \in 1..Len(a) |-> IF lo < i /\ i <= hi THEN NaN ELSE a[i]]

\* np.full(n, v, np.float32)
Full(n, v) == [i \in 1..n |-> v]

\* math.ceil(a / b) for a >= 0, b > 0
Ceil(a, b) == (a + b - 1) \div b

RECURSIVE Tile(_, _)
\* np.tile(a, reps)
Tile(a, reps) == IF reps <= 0 THEN <<>> ELSE a \o Tile(a, reps - 1)

RECURSIVE Repeat(_, _)
\* np.repeat(a, reps)
Repeat(a, reps) ==
    IF Len(a) = 0 THEN <<>>
    ELSE Full(Max(reps, 0), a[1]) \o Repeat(Tail(a), reps)

\* np.roll(a, 1)
Roll1(a) ==
    IF Len(a) = 0 THEN a
    ELSE [i \in 1..Len(a) |-> IF i = 1 THEN a[Len(a)] ELSE a[i - 1]]

\* ------------------------------------------------------------ forecasters
\* Mutant: np.repeat in place of np.tile.
_repeat_val_seas_repeat(vals, hh) ==
    LET repeats == Ceil(hh, Len(vals))
    IN  SliceTo(Repeat(vals, repeats), hh)

_repeat_val_seas(vals, hh) ==
    LET repeats == Ceil(hh, Len(vals))
    IN  SliceTo(Tile(vals, repeats), hh)

\* Mutant: the first observations, y[:season_samples], in place of the last.
SeasonSrc_head(yy, m) == SliceTo(yy, Min(m, Len(yy)))

\* The observations _seasonal_naive copies into the template.
SeasonSrc(yy, m) == SliceFrom(yy, 0 - Min(m, Len(yy)))

\* The template assignment season_vals[:season_samples] = y[-season_samples:]
\* is accepted.
SeasonValsOk(yy, m) ==
    CanAssign(Full(m, NaN), 0, Min(m, Len(yy)), SeasonSrc(yy, m))

\* Mutant: the template filled right-aligned,
\* season_vals[season_length - season_samples:] = y[-season_samples:].
SeasonVals_right(yy, m) ==
    SetSlice(Full(m, NaN), m - Min(m, Len(yy)), m, SeasonSrc(yy, m))

\* The season template _seasonal_naive builds.
SeasonVals(yy, m) ==
    SetSlice(Full(m, NaN), 0, Min(m, Len(yy)), SeasonSrc(yy, m))

\* The fitted assignment fitted_vals[season_length:] = y[:n - season_length]
\* is accepted (it runs only when n > season_length).
SeasonalFittedOk(yy, m) ==
    Len(yy) > m =>
        CanAssign(Full(Len(yy), NaN), m, Len(yy), SliceTo(yy, Len(yy) - m))

\* Mutant: no lag, fitted_vals[season_length:] = y[season_length:].
SeasonalFitted_nolag(yy, m, empty) ==
    LET n == Len(yy)
        f1 == FillNaN(empty, 0, m)
    IN  IF n > m THEN SetSlice(f1, m, n, SliceFrom(yy, m)) ELSE f1

\* The fitted values _seasonal_naive builds on np.empty's array `empty`.
SeasonalFitted(yy, m, empty) ==
    LET n == Len(yy)
        f1 == FillNaN(empty, 0, m)
    IN  IF n > m THEN SetSlice(f1, m, n, SliceTo(yy, n - m)) ELSE f1

_seasonal_naive(yy, hh, fit, m, empty) ==
    IF ~SeasonValsOk(yy, m) THEN Raise("ValueError")
    ELSE LET out == _repeat_val_seas(SeasonVals(yy, m), hh)
         IN  IF ~fit THEN [mean |-> out]
             ELSE IF ~SeasonalFittedOk(yy, m) THEN Raise("ValueError")
             ELSE [mean |-> out, fitted |-> SeasonalFitted(yy, m, empty)]

_repeat_val(val, hh) == Full(hh, F32(val))

\* The fitted assignment fitted_vals[1:] = np.roll(y, 1)[1:] is accepted.
NaiveFittedOk(yy) ==
    CanAssign(Full(Len(yy), NaN), 1, Len(yy), SliceFrom(Roll1(yy), 1))

\* Mutant: the roll's wrap-around kept, fitted_vals[:] = np.roll(y, 1).
NaiveFitted_wrap(yy) ==
    SetSlice(Full(Len(yy), NaN), 0, Len(yy), Roll1(yy))

\* The fitted values _naive builds.
NaiveFitted(yy) ==
    SetSlice(Full(Len(yy), NaN), 1, Len(yy), SliceFrom(Roll1(yy), 1))

_naive(yy, hh, fit) ==
    IF Len(yy) = 0 THEN Raise("IndexError")
    ELSE LET out == _repeat_val(yy[Len(yy)], hh)
         IN  IF ~fit THEN [mean |-> out]
             ELSE IF ~NaiveFittedOk(yy) THEN Raise("ValueError")
             ELSE [mean |-> out, fitted |-> NaiveFitted(yy)]

\* ------------------------------------------------- forecaster state machine
Series == UNION {[1..n -> 0..MaxVal] : n \in 0..MaxN}

\* The parts of the state a specification does not use.
FcstIdle ==
    /\ y = <<>> /\ h = 0 /\ fitted = FALSE /\ season_length = 1
    /\ season_vals = <<>> /\ seas = NoResult /\ naive = NoResult
IntvIdle == mean = <<>> /\ level = <<>> /\ sigmah = NoResult /\ pred_int = NoResult
SigmaIdle == residuals = <<>> /\ n_valid = 0 /\ sigma = NoResult
ConfIdle ==
    /\ args = [n_windows |-> 0, h |-> 0, method |-> ""]
    /\ self = [returned |-> FALSE, set |-> {}, n_windows |-> 0, h |-> 0,
               method |-> ""]
    /\ error = "" /\ assigned = {}

Init ==
    /\ y \in Series
    /\ h \in 0..MaxH
    /\ fitted \in BOOLEAN
    /\ season_length \in 1..MaxM
    /\ season_vals = <<>>
    /\ seas = NoResult
    /\ naive = NoResult
    /\ done = {}
    /\ IntvIdle /\ SigmaIdle /\ ConfIdle

CallSeasonalNaive ==
    /\ "_seasonal_naive" \notin done
    /\ \E empty \in [1..Len(y) -> Garbage] :
          seas' = _seasonal_naive(y, h, fitted, season_length, empty)
    /\ season_vals' = IF SeasonValsOk(y, season_length)
                      THEN SeasonVals(y, season_length) ELSE <<>>
    /\ done' = done \cup {"_seasonal_naive"}
    /\ UNCHANGED <<y, h, fitted, season_length, naive>>
    /\ UNCHANGED <<intvVars, sigmaVars, confVars>>

CallNaive ==
    /\ "_naive" \notin done
    /\ naive' = _naive(y, h, fitted)
    /\ done' = done \cup {"_naive"}
    /\ UNCHANGED <<y, h, fitted, season_length, season_vals, seas>>
    /\ UNCHANGED <<intvVars, sigmaVars, confVars>>

Next == CallSeasonalNaive \/ CallNaive

Spec == Init /\ [][Next]_vars

\* ----------------------------------------------------- prediction intervals
\* The interval computation is in hundredths: the mean and the bounds are
\* integers counting hundredths and a quantile is z * 100, so that
\* mean - z * sigmah stays an integer.

\* The confidence levels the model draws from.
Levels == {50, 80, 95}

\* norm.ppf(0.5 + level / 200), in hundredths.
_quantiles(lv) ==
    CASE lv = 50 -> 67
      [] lv = 80 -> 128
      [] lv = 95 -> 196

\* sigmah is a scalar (held as <<v>>) or an array with one entry per step of
\* the horizon.
Scalar(v) == [kind |-> "scalar", v |-> <<v>>]
Array(a) == [kind |-> "array", v |-> a]

\* Element t of sigmah broadcast against the horizon.
Broadcast(sg, t) == IF sg.kind = "scalar" THEN sg.v[1] ELSE sg.v[t]

\* Mutant: np.tile(z, h) in place of np.repeat(z, h).
ZRows_tile(z, hh) ==
    LET zz == Tile(z, hh)
    IN  [i \in 1..Len(z) |-> SubSeq(zz, (i - 1) * hh + 1, i * hh)]

\* zz = np.repeat(z, h).reshape(z.shape[0], h): row i of the reshaped array.
ZRows(z, hh) ==
    LET zz == Repeat(z, hh)
    IN  [i \in 1..Len(z) |-> SubSeq(zz, (i - 1) * hh + 1, i * hh)]

\* d[k] = v on a dict.
Put(d, k, v) == [x \in DOMAIN d \cup {k} |-> IF x = k THEN v ELSE d[x]]

RECURSIVE DictOf(_, _, _, _)
\* {f'{tag}-{lv}': rows[i] for i, lv in enumerate(level)}, the first i pairs.
DictOf(tag, rows, lvs, i) ==
    IF i = 0 THEN <<>>
    ELSE Put(DictOf(tag, rows, lvs, i - 1), <<tag, lvs[i]>>, rows[i])

\* {**a, **b}
Merge(a, b) ==
    [x \in DOMAIN a \cup DOMAIN b |-> IF x \in DOMAIN b THEN b[x] ELSE a[x]]

_calculate_intervals(out_mean, lvs, hh, sg) ==
    LET z == [i \in 1..Len(lvs) |-> _quantiles(lvs[i])]
        zz == ZRows(z, hh)
        lower == [i \in 1..Len(lvs) |->
                    [t \in 1..hh |-> out_mean[t] - zz[i][t] * Broadcast(sg, t)]]
        upper == [i \in 1..Len(lvs) |->
                    [t \in 1..hh |-> out_mean[t] + zz[i][t] * Broadcast(sg, t)]]
    IN  Merge(DictOf("lo", lower, lvs, Len(lvs)),
              DictOf("hi", upper, lvs, Len(lvs)))

Means == UNION {[1..n -> 0..MaxVal] : n \in 0..MaxIH}
LevelLists == UNION {[1..n -> Levels] : n \in 0..MaxLevels}
Sigmas(hh) ==
    {Scalar(v) : v \in (0 - 1)..MaxSigma} \cup
    {Array(a) : a \in [1..hh -> 0..MaxSigma]}

InitIntervals ==
    /\ mean \in Means
    /\ level \in LevelLists
    /\ sigmah \in Sigmas(Len(mean))
    /\ pred_int = NoResult
    /\ done = {}
    /\ FcstIdle /\ SigmaIdle /\ ConfIdle

CallCalculateIntervals ==
    /\ "_calculate_intervals" \notin done
    /\ pred_int' = _calculate_intervals(mean, level, Len(mean), sigmah)
    /\ done' = done \cup {"_calculate_intervals"}
    /\ UNCHANGED <<mean, level, sigmah, fcstVars, sigmaVars, confVars>>

NextIntervals == CallCalculateIntervals

SpecIntervals == InitIntervals /\ [][NextIntervals]_vars

\* ------------------------------------------------------------------- sigma
\* A returned sigma: the int 0, or the float sqrt(num / den); a division by
\* zero gives the float inf (num > 0) or nan (num = 0).
IntZero == [kind |-> "int", num |-> 0, den |-> 1]
SqrtOfQuotient(num, den) ==
    IF den = 0
    THEN [kind |-> IF num = 0 THEN "nan" ELSE "inf", num |-> num, den |-> den]
    ELSE [kind |-> "sqrt", num |-> num, den |-> den]

RECURSIVE NanSumSq(_)
\* np.nansum(residuals ** 2)
NanSumSq(r) ==
    IF Len(r) = 0 THEN 0
    ELSE (IF IsNaN(r[1]) THEN 0 ELSE r[1].val * r[1].val) + NanSumSq(Tail(r))

\* Mutant: the guard n >= 0 in place of n > 0.
_calculate_sigma_geq(r, n) ==
    IF n >= 0 THEN SqrtOfQuotient(NanSumSq(r), n) ELSE IntZero

_calculate_sigma(r, n) ==
    IF n > 0 THEN SqrtOfQuotient(NanSumSq(r), n) ELSE IntZero

ResidualValues == {NaN} \cup {Num(v) : v \in (0 - MaxVal)..MaxVal}
ResidualArrays == UNION {[1..k -> ResidualValues] : k \in 0..MaxN}

InitSigma ==
    /\ residuals \in ResidualArrays
    /\ n_valid \in (0 - 1)..MaxN
    /\ sigma = NoResult
    /\ done = {}
    /\ FcstIdle /\ IntvIdle /\ ConfIdle

CallCalculateSigma ==
    /\ "_calculate_sigma" \notin done
    /\ sigma' = _calculate_sigma(residuals, n_valid)
    /\ done' = done \cup {"_calculate_sigma"}
    /\ UNCHANGED <<residuals, n_valid, fcstVars, intvVars, confVars>>

NextSigma == CallCalculateSigma

SpecSigma == InitSigma /\ [][NextSigma]_vars

\* ------------------------------------------------------ ConformalIntervals
\* The attributes __init__ assigns, in its order.
Attributes == {"n_windows", "h", "method"}

allowed_methods == {"conformal_distribution"}

\* The method strings the model draws from.
Methods == {"conformal_distribution", "conformal_error", ""}

\* A ConformalIntervals object: the attributes set on it and their values
\* (0 and "" stand for an attribute that is not set), and whether the
\* constructor call returned it to its caller.
NewObject ==
    [returned |-> FALSE, set |-> {}, n_windows |-> 0, h |-> 0, method |-> ""]

\* Mutant: at least one window required, n_windows < 1.
ConformalIntervals_one(n_windows, hh, method) ==
    IF n_windows < 1
    THEN [error |-> "ValueError", self |-> NewObject]
    ELSE IF method \notin allowed_methods
    THEN [error |-> "ValueError", self |-> NewObject]
    ELSE [error |-> "",
          self |-> [returned |-> TRUE, set |-> Attributes,
                    n_windows |-> n_windows, h |-> hh, method |-> method]]

\* ConformalIntervals.__init__: the exception raised ("" for none) and the
\* object as the call leaves it.
ConformalIntervals(n_windows, hh, method) ==
    IF n_windows < 2
    THEN [error |-> "ValueError", self |-> NewObject]
    ELSE IF method \notin allowed_methods
    THEN [error |-> "ValueError", self |-> NewObject]
    ELSE [error |-> "",
          self |-> [returned |-> TRUE, set |-> Attributes,
                    n_windows |-> n_windows, h |-> hh, method |-> method]]

InitConformal ==
    /\ ConfIdle
    /\ done = {}
    /\ FcstIdle /\ IntvIdle /\ SigmaIdle

\* cfg = ConformalIntervals(n_windows, h, method)
Construct ==
    /\ "ConformalIntervals" \notin done
    /\ \E n_windows \in 0..MaxWindows, hh \in (0 - 1)..MaxH, method \in Methods :
          /\ args' = [n_windows |-> n_windows, h |-> hh, method |-> method]
          /\ self' = ConformalIntervals(n_windows, hh, method).self
          /\ error' = ConformalIntervals(n_windows, hh, method).error
    /\ assigned' = {}
    /\ done' = done \cup {"ConformalIntervals"}
    /\ UNCHANGED <<fcstVars, intvVars, sigmaVars>>

\* A consumer reads cfg.n_windows, cfg.h and cfg.method.
ReadAttributes ==
    /\ "ConformalIntervals" \in done
    /\ self.returned
    /\ done' = done \cup {"read"}
    /\ UNCHANGED <<fcstVars, intvVars, sigmaVars, confVars>>

\* A consumer assigns an attribute of the object it holds: the class defines
\* plain instance attributes, which Python leaves assignable.
AssignNWindows ==
    /\ self.returned
    /\ \E v \in 0..MaxWindows : self' = [self EXCEPT !.n_windows = v]
    /\ assigned' = assigned \cup {"n_windows"}
    /\ UNCHANGED <<fcstVars, intvVars, sigmaVars, args, error, done>>

AssignH ==
    /\ self.returned
    /\ \E v \in (0 - 1)..MaxH : self' = [self EXCEPT !.h = v]
    /\ assigned' = assigned \cup {"h"}
    /\ UNCHANGED <<fcstVars, intvVars, sigmaVars, args, error, done>>

AssignMethod ==
    /\ self.returned
    /\ \E v \in Methods : self' = [self EXCEPT !.method = v]
    /\ assigned' = assigned \cup {"method"}
    /\ UNCHANGED <<fcstVars, intvVars, sigmaVars, args, error, done>>

NextConformal ==
    Construct \/ ReadAttributes \/ AssignNWindows \/ AssignH \/ AssignMethod

SpecConformal == InitConformal /\ [][NextConformal]_vars

\* -------------------------------------------------------- forecaster claims
SeasDone == "_seasonal_naive" \in done
NaiveDone == "_naive" \in done

\* C1: with n >= m, _seasonal_naive returns a mean of exactly h entries and
\* mean[t] is the observation y[n - m + (t mod m)] (as the float32 the array
\* holds) for every t in 0..h-1; with h = m the mean is the last m
\* observations in their order.
C1_SeasonalPeriodicity ==
    (SeasDone /\ Len(y) >= season_length) =>
        /\ ~Raised(seas)
        /\ Len(seas.mean) = h
        /\ \A t \in 0..(h - 1) :
              seas.mean[t + 1] =
                  F32(y[Len(y) - season_length + (t % season_length) + 1])
        /\ h = season_length =>
              seas.mean = [i \in 1..season_length |->
                              F32(y[Len(y) - season_length + i])]

\* C1's case: more than one season of history, a horizon that wraps around
\* the season, and a forecast that is not constant.
C1_Witness ==
    /\ SeasDone /\ ~Raised(seas)
    /\ Len(y) > season_length /\ h > season_length
    /\ seas.mean[1] # seas.mean[2]

\* C2 as stated: the template is filled right-aligned with the last
\* k = min(m, n) observations, template[m - k .. m - 1] = y[n - k .. n - 1],
\* and with n < m exactly the leading m - n positions stay NaN.
C2_RightAligned ==
    SeasDone =>
        LET n == Len(y)
            m == season_length
            k == Min(m, n)
        IN  /\ Len(season_vals) = m
            /\ \A i \in 0..(k - 1) :
                  season_vals[m - k + i + 1] = F32(y[n - k + i + 1])
            /\ n < m => \A j \in 0..(m - 1) :
                  IsNaN(season_vals[j + 1]) <=> j <= m - n - 1

\* C2 amended: the template is filled left-aligned with the last k = min(m, n)
\* observations, template[0 .. k - 1] = y[n - k .. n - 1], and with n < m
\* exactly the trailing m - n positions (k .. m - 1) stay NaN.
C2_LeftAligned ==
    SeasDone =>
        LET n == Len(y)
            m == season_length
            k == Min(m, n)
        IN  /\ Len(season_vals) = m
            /\ \A i \in 0..(k - 1) :
                  season_vals[i + 1] = F32(y[n - k + i + 1])
            /\ n < m => \A j \in 0..(m - 1) :
                  IsNaN(season_vals[j + 1]) <=> j >= n

\* C2's case: a template built from a history shorter than the season.
C2_Witness ==
    /\ SeasDone
    /\ 0 < Len(y) /\ Len(y) < season_length
    /\ ~IsNaN(season_vals[1]) /\ IsNaN(season_vals[season_length])

\* C3: with 0 <= n < m, _seasonal_naive does not fail, the mean has exactly h
\* entries, the last m - n template positions are NaN, and mean[t] is NaN
\* exactly when (t mod m) >= n, otherwise an observed value of y.
C3_ShortHistoryNaN ==
    (SeasDone /\ Len(y) < season_length) =>
        /\ ~Raised(seas)
        /\ Len(seas.mean) = h
        /\ \A j \in Len(y)..(season_length - 1) : IsNaN(season_vals[j + 1])
        /\ \A t \in 0..(h - 1) :
              /\ IsNaN(seas.mean[t + 1]) <=> (t % season_length) >= Len(y)
              /\ ~IsNaN(seas.mean[t + 1]) =>
                    \E i \in 1..Len(y) : seas.mean[t + 1] = F32(y[i])

\* C3's case: a short history whose NaN recurs in the second repetition,
\* after an observed value of that repetition.
C3_Witness ==
    /\ SeasDone /\ ~Raised(seas)
    /\ 0 < Len(y) /\ Len(y) < season_length
    /\ h >= season_length + 2
    /\ ~IsNaN(seas.mean[season_length + 1])
    /\ IsNaN(seas.mean[season_length + 2])

\* C4: with fitted requested, the fitted array has exactly n entries, its
\* first min(m, n) positions are NaN and its positions i in m..n-1 hold
\* y[i - m]; with n <= m it is all NaN.
C4_SeasonalFitted ==
    (SeasDone /\ fitted) =>
        /\ ~Raised(seas)
        /\ DOMAIN seas = {"mean", "fitted"}
        /\ Len(seas.fitted) = Len(y)
        /\ \A i \in 0..(Min(season_length, Len(y)) - 1) :
              IsNaN(seas.fitted[i + 1])
        /\ \A i \in season_length..(Len(y) - 1) :
              seas.fitted[i + 1] = F32(y[i - season_length + 1])
        /\ Len(y) <= season_length =>
              \A i \in 1..Len(y) : IsNaN(seas.fitted[i])

\* C4's case: fitted values that carry two different lagged observations.
C4_Witness ==
    /\ SeasDone /\ fitted /\ ~Raised(seas)
    /\ Len(y) >= season_length + 2
    /\ seas.fitted[season_length + 1] # seas.fitted[season_length + 2]

\* C5: with season length 1 and n >= 1, _seasonal_naive and _naive return
\* the same dict: the same keys, the same mean and the same fitted array.
C5_SeasonOneIsNaive ==
    (SeasDone /\ NaiveDone /\ season_length = 1 /\ Len(y) >= 1) =>
        seas = naive

\* C5's case: both forecasters applied with season length 1, fitted values
\* requested, on a series that is not constant.
C5_Witness ==
    /\ SeasDone /\ NaiveDone /\ season_length = 1
    /\ fitted /\ h >= 2 /\ Len(y) >= 3
    /\ ~Raised(naive)
    /\ naive.fitted[2] # naive.fitted[3]

\* C6: with n >= 1 and fitted requested, _naive returns a mean of exactly h
\* entries all equal to y[n - 1] and a fitted array of exactly n entries with
\* fitted[0] NaN and fitted[i] = y[i - 1] for i in 1..n-1.
C6_NaiveForecast ==
    (NaiveDone /\ Len(y) >= 1 /\ fitted) =>
        /\ ~Raised(naive)
        /\ DOMAIN naive = {"mean", "fitted"}
        /\ Len(naive.mean) = h
        /\ \A t \in 1..h : naive.mean[t] = F32(y[Len(y)])
        /\ Len(naive.fitted) = Len(y)
        /\ IsNaN(naive.fitted[1])
        /\ \A i \in 1..(Len(y) - 1) : naive.fitted[i + 1] = F32(y[i])

\* C6's case: a naive forecast with fitted values on a series whose last
\* observation differs from the others.
C6_Witness ==
    /\ NaiveDone /\ fitted /\ ~Raised(naive)
    /\ Len(y) >= 2 /\ h >= 1
    /\ naive.fitted[2] # naive.mean[1]

\* ---------------------------------------------------------- interval claims
IntvDone == "_calculate_intervals" \in done
LevelSet == {level[i] : i \in 1..Len(level)}

\* C9: _calculate_intervals returns exactly the keys lo-lv and hi-lv of the
\* distinct levels supplied, each an array of length h with
\* lo-lv[t] = mean[t] - z_lv * sigmah[t] and hi-lv[t] = mean[t] + z_lv *
\* sigmah[t], z_lv the quantile of that level; so hi-lv[t] - mean[t] =
\* mean[t] - lo-lv[t].
C9_Intervals ==
    IntvDone =>
        /\ DOMAIN pred_int =
              {<<"lo", lv>> : lv \in LevelSet} \cup {<<"hi", lv>> : lv \in LevelSet}
        /\ \A lv \in LevelSet :
              LET lo == pred_int[<<"lo", lv>>]
                  hi == pred_int[<<"hi", lv>>]
              IN  /\ Len(lo) = Len(mean) /\ Len(hi) = Len(mean)
                  /\ \A t \in 1..Len(mean) :
                        /\ lo[t] = mean[t] - _quantiles(lv) * Broadcast(sigmah, t)
                        /\ hi[t] = mean[t] + _quantiles(lv) * Broadcast(sigmah, t)
                        /\ hi[t] - mean[t] = mean[t] - lo[t]

\* C9's case: two different levels, a horizon of two steps or more and a
\* per-step spread that gives the two levels different bounds.
C9_Witness ==
    /\ IntvDone
    /\ Len(level) >= 2 /\ level[1] # level[2]
    /\ Len(mean) >= 2
    /\ sigmah.kind = "array"
    /\ pred_int[<<"lo", level[1]>>][2] # pred_int[<<"lo", level[2]>>][2]

\* ------------------------------------------------------------- sigma claim
SigmaDone == "_calculate_sigma" \in done

\* C10: _calculate_sigma(residuals, n) returns 0 when n = 0, whatever the
\* residuals hold, without dividing by n.
C10_SigmaZeroCount ==
    (SigmaDone /\ n_valid = 0) => sigma = IntZero

\* C10's case: a zero count with a residual whose square is positive, next
\* to a NaN residual.
C10_Witness ==
    /\ SigmaDone /\ n_valid = 0
    /\ Len(residuals) >= 2
    /\ IsNaN(residuals[1])
    /\ NanSumSq(residuals) > 0

\* ------------------------------------------------ ConformalIntervals claims
Constructed == "ConformalIntervals" \in done

\* C7: the construction fails with ValueError exactly when n_windows < 2 or
\* the method is not a recognized one, and then no object with an attribute
\* set exists; otherwise it returns an object that holds n_windows, h and
\* method as given.
C7_ConstructionValidates ==
    (Constructed /\ assigned = {}) =>
        LET invalid == args.n_windows < 2 \/ args.method \notin allowed_methods
        IN  /\ (error = "ValueError") <=> invalid
            /\ error \in {"", "ValueError"}
            /\ invalid => (~self.returned /\ self.set = {})
            /\ ~invalid =>
                  /\ self.returned /\ self.set = Attributes
                  /\ self.n_windows = args.n_windows
                  /\ self.h = args.h
                  /\ self.method = args.method

\* C7's case: a construction with exactly two windows and a horizon that is
\* not positive succeeds and stores the horizon.
C7_Witness ==
    /\ Constructed /\ assigned = {}
    /\ args.n_windows = 2 /\ args.h < 1
    /\ self.returned /\ self.h = args.h

\* C8: a ConformalIntervals object is immutable: after a successful
\* construction its attributes equal the constructor arguments in every
\* reachable state, whatever a consumer does with the object, so
\* n_windows >= 2 and a recognized method are invariants of it.
C8_Immutable ==
    (Constructed /\ error = "") =>
        /\ self.n_windows = args.n_windows
        /\ self.h = args.h
        /\ self.method = args.method
        /\ self.n_windows >= 2
        /\ self.method \in allowed_methods

\* What does hold of the object: the class itself never changes an attribute
\* after construction, so every attribute no consumer has assigned still
\* equals its constructor argument.
UnassignedAttributesKeepArguments ==
    (Constructed /\ error = "") =>
        /\ "n_windows" \notin assigned =>
              (self.n_windows = args.n_windows /\ self.n_windows >= 2)
        /\ "h" \notin assigned => self.h = args.h
        /\ "method" \notin assigned =>
              (self.method = args.method /\ self.method \in allowed_methods)

====
